---------------------------- MODULE Spec2Model ----------------------------
(***************************************************************************)
(* Model of bin/music_player.py: a loop that scans a directory for .wav    *)
(* files, orders them by modification time, concatenates them with ffmpeg  *)
(* into one artifact cached by an md5 checksum, and plays it with mpv.     *)
(*                                                                         *)
(* Text is a sequence of one-character strings, a file's data a sequence   *)
(* of bytes, and a filesystem path that may not exist an option: <<>> for  *)
(* a missing file, <<x>> for a file whose content is x.                    *)
(***************************************************************************)
EXTENDS Integers, Sequences, FiniteSets, TLC

\* ------------------------------------------------------------------ bounds
MaxEnv == 3        \* changes the environment makes to the filesystem in one run
MaxMtime == 2      \* modification times are 1..MaxMtime
MaxLen == 2        \* bytes in one source file, where the checksum is studied
MaxDigestLen == 2  \* characters in a digest string, where the round trip is studied
MaxScanMtime == 3  \* modification times are 1..MaxScanMtime, where the scan is studied

\* --------------------------------------------------------------- constants
ChunkSize == 4096                       \* f.read(4096)
Extension == <<".", "w", "a", "v">>     \* extension=".wav"
music_dir == <<"m">>                    \* the configured source directory
SubDir == <<"m", "/", "s">>             \* a directory below music_dir
peer_dir == <<"o">>                     \* the directory of a second instance
Roots == <<music_dir, SubDir, peer_dir>> \* os.walk is top-down
AWav == <<"a", ".", "w", "a", "v">>
BWav == <<"b", ".", "w", "a", "v">>
NTxt == <<"n", ".", "t", "x", "t">>
\* The directory entries that may exist: [root, name].
Entries ==
  { [root |-> 1, name |-> AWav], [root |-> 1, name |-> BWav],
    [root |-> 2, name |-> NTxt] }

\* Two byte values, the lowest and the highest, tell file contents apart.
Bytes == {0, 255}
Mtimes == 1..MaxMtime
RECURSIVE SeqsUpTo(_, _)
SeqsUpTo(S, n) ==
  IF n = 0 THEN {<<>>}
  ELSE LET shorter == SeqsUpTo(S, n - 1)
       IN  shorter \cup { Append(s, x) : s \in shorter, x \in S }
\* What the environment writes while the loop runs: an empty file or one byte.
Written == {<<>>} \cup { <<b>> : b \in Bytes }
\* The file contents over which the checksum is studied.
Contents == SeqsUpTo(Bytes, MaxLen)

None == <<>>
Some(x) == <<x>>

\* ------------------------------------------------------------ path helpers
\* os.path.join(root, filename)
join(root, filename) == root \o <<"/">> \o filename
PathOf(e) == join(Roots[e.root], e.name)
Paths == { PathOf(e) : e \in Entries }

\* str.endswith
endswith(s, suffix) ==
  /\ Len(s) >= Len(suffix)
  /\ SubSeq(s, Len(s) - Len(suffix) + 1, Len(s)) = suffix

\* os.path.exists
exists(f) == f # None

\* os.path.getmtime
getmtime(path, fs) == fs[path][1].mtime

\* ------------------------------------------------------ directory scanning
\* The orders in which os.walk may list the entries present in fs: the
\* directories top-down, the names inside one directory in any order.
ListingsOf(entries, fs) ==
  LET present == { e \in entries : exists(fs[PathOf(e)]) }
      n == Cardinality(present)
  IN  { l \in [1..n -> present] :
          /\ \A i, j \in 1..n : i # j => l[i] # l[j]
          /\ \A i, j \in 1..n : i < j => l[i].root <= l[j].root }
Listings(fs) == ListingsOf(Entries, fs)

\* The loop body of get_files_sorted_by_mtime: the full paths of the listed
\* names that end with the extension, in listing order.
RECURSIVE Collect(_)
Collect(listing) ==
  IF listing = <<>> THEN <<>>
  ELSE LET e == Head(listing)
       IN  (IF endswith(e.name, Extension) THEN <<PathOf(e)>> ELSE <<>>)
             \o Collect(Tail(listing))

\* sorted(files, key=os.path.getmtime): a stable sort, so files of equal
\* mtime keep their listing order.
RECURSIVE InsertByMtime(_, _, _)
InsertByMtime(x, s, fs) ==
  IF s = <<>> THEN <<x>>
  ELSE IF getmtime(Head(s), fs) <= getmtime(x, fs)
       THEN <<Head(s)>> \o InsertByMtime(x, Tail(s), fs)
       ELSE <<x>> \o s
RECURSIVE sorted(_, _)
sorted(s, fs) ==
  IF s = <<>> THEN <<>>
  ELSE InsertByMtime(s[Len(s)], sorted(SubSeq(s, 1, Len(s) - 1), fs), fs)

\* get_files_sorted_by_mtime returning the files as the walk listed them.
get_files_unsorted(listing, fs) == Collect(listing)

get_files_sorted_by_mtime(listing, fs) == sorted(Collect(listing), fs)

\* --------------------------------------------------------------- checksum
\* hashlib.md5, treated as collision-free: the hash object is the byte
\* stream it has been fed, and hexdigest() renders it injectively as a
\* non-empty string of hex digits.
md5 == <<>>
update(h, chunk) == h \o chunk
HexDigits ==
  << "0", "1", "2", "3", "4", "5", "6", "7",
     "8", "9", "a", "b", "c", "d", "e", "f" >>
RECURSIVE HexOf(_)
HexOf(stream) ==
  IF stream = <<>> THEN <<>>
  ELSE << HexDigits[(Head(stream) \div 16) + 1],
          HexDigits[(Head(stream) % 16) + 1] >> \o HexOf(Tail(stream))
hexdigest(h) == <<"d">> \o HexOf(h)

\* for chunk in iter(lambda: f.read(4096), b""): hash_md5.update(chunk)
RECURSIVE ReadChunks(_, _, _)
ReadChunks(h, data, pos) ==
  LET last == IF pos + ChunkSize - 1 < Len(data)
              THEN pos + ChunkSize - 1 ELSE Len(data)
      chunk == SubSeq(data, pos, last)
  IN  IF chunk = <<>> THEN h
      ELSE ReadChunks(update(h, chunk), data, pos + Len(chunk))

RECURSIVE HashFiles(_, _, _)
HashFiles(h, fileList, fs) ==
  IF fileList = <<>> THEN h
  ELSE HashFiles(ReadChunks(h, fs[Head(fileList)][1].data, 1),
                 Tail(fileList), fs)

\* open(file, "rb") raises FileNotFoundError for a file that is gone.
Readable(fileList, fs) ==
  \A i \in 1..Len(fileList) : exists(fs[fileList[i]])

calculate_checksum(fileList, fs) == hexdigest(HashFiles(md5, fileList, fs))

\* str.strip(): leading and trailing whitespace removed.
Whitespace == {" ", "\n", "\t", "\r"}
RECURSIVE lstrip(_)
lstrip(s) ==
  IF s # <<>> /\ Head(s) \in Whitespace THEN lstrip(Tail(s)) ELSE s
RECURSIVE rstrip(_)
rstrip(s) ==
  IF s # <<>> /\ s[Len(s)] \in Whitespace
  THEN rstrip(SubSeq(s, 1, Len(s) - 1)) ELSE s
strip(s) == rstrip(lstrip(s))

\* read_previous_checksum reading with readline()[:-1], which takes the last
\* character of the digest for a line end.
read_previous_checksum_chopped(f) ==
  IF exists(f) THEN strip(SubSeq(f[1], 1, Len(f[1]) - 1)) ELSE <<>>

\* The string read_previous_checksum returns for the checksum path f.
read_previous_checksum(f) == IF exists(f) THEN strip(f[1]) ELSE <<>>

\* write_new_checksum losing the digest's last character.
write_new_checksum_truncated(checksum) ==
  Some(SubSeq(checksum, 1, Len(checksum) - 1))

\* The checksum path after write_new_checksum(checksum, checksum_path).
write_new_checksum(checksum) == Some(checksum)

\* ---------------------------------------------------------------- manifest
LinePrefix == <<"f", "i", "l", "e", " ", "'">>
LineSuffix == <<"'", "\n">>
\* The manifest generate_playlist writes: one line per file.
RECURSIVE PlaylistLines(_)
PlaylistLines(fileList) ==
  IF fileList = <<>> THEN <<>>
  ELSE <<LinePrefix \o Head(fileList) \o LineSuffix>>
         \o PlaylistLines(Tail(fileList))
\* generate_playlist opening the manifest inside its loop: every line
\* overwrites the one before, and only the last file stays listed.
generate_playlist_last_only(fileList) ==
  Some(PlaylistLines(SubSeq(fileList, Len(fileList), Len(fileList))))

generate_playlist(fileList) == Some(PlaylistLines(fileList))

\* ffmpeg -f concat: the path a manifest line names.
LinePath(line) ==
  SubSeq(line, Len(LinePrefix) + 1, Len(line) - Len(LineSuffix))
ManifestPaths(manifest) ==
  [ i \in 1..Len(manifest[1]) |-> LinePath(manifest[1][i]) ]

\* ffmpeg -c copy: the listed files' data, joined in manifest order.
RECURSIVE ConcatData(_, _)
ConcatData(pathList, fs) ==
  IF pathList = <<>> THEN <<>>
  ELSE fs[Head(pathList)][1].data \o ConcatData(Tail(pathList), fs)

\* The inputs ffmpeg can read before it meets a missing one.
RECURSIVE ReadablePrefix(_, _)
ReadablePrefix(pathList, fs) ==
  IF pathList = <<>> \/ ~exists(fs[Head(pathList)]) THEN <<>>
  ELSE <<Head(pathList)>> \o ReadablePrefix(Tail(pathList), fs)

Prefixes(s) == { SubSeq(s, 1, n) : n \in 0..Len(s) }


\* ------------------------------------------------------------------- state
VARIABLES
  dir,                \* the filesystem below music_dir: path -> file or None
  output_file,        \* /tmp/combined_playlist.wav: None or Some(data)
  playlist_file,      \* /tmp/ffmpeg_playlist.txt: None or Some(lines)
  checksum_file,      \* /tmp/playlist_checksum.txt: None or Some(text)
  pc,                 \* the statement the loop executes next
  files,              \* the loop's variable files
  current_checksum,   \* the loop's variable current_checksum
  previous_checksum,  \* the loop's variable previous_checksum
  returncode,         \* exit status of the last subprocess.run
  stdout,             \* the lines printed in the current iteration
  calls,              \* the functions called in the current iteration
  envc,               \* how many changes the environment has made
  disturbed,          \* the environment acted since the last scan
  touched,            \* it acted since the scan of the last rebuilding iteration
  clean_iters,        \* the previous iteration completed undisturbed (0 or 1)
  peer                \* a second instance of the program: its pc and variables

scratch == <<output_file, playlist_file, checksum_file>>
locals == <<files, current_checksum, previous_checksum>>
program == <<scratch, pc, locals, returncode, stdout, calls>>
history == <<envc, disturbed, touched, clean_iters>>
vars == <<dir, program, history, peer>>

NoFilesMsg == "No .wav files found in the directory."
ChangesMsg == "Changes detected or output file missing, regenerating..."
NoChangesMsg == "No changes detected. Using existing combined audio file."
PlayingMsg == "Playing combined playlist..."

File(d, t) == Some([data |-> d, mtime |-> t])
AudioPaths == { q \in Paths : endswith(q, Extension) }
\* A directory holding no audio file yet; the other files in it stay as they are.
EmptyDir == [q \in Paths |-> IF q \in AudioPaths THEN None ELSE File(<<0>>, 1)]

\* The second instance watches another directory, which holds one audio
\* file and does not change; it shares the scratch paths, which are fixed.
PWav == <<"p", ".", "w", "a", "v">>
PeerEntries == { [root |-> 3, name |-> PWav] }
PeerDir == [q \in { PathOf(e) : e \in PeerEntries } |-> File(<<255>>, 1)]
\* What the tools find under the absolute paths they are given.
Filesystem == dir @@ PeerDir
\* No second instance runs.
PeerOff ==
  [pc |-> "off", files |-> <<>>, current_checksum |-> <<>>,
   previous_checksum |-> <<>>]

\* The program starts with no audio file and no scratch file left in /tmp.
Init ==
  /\ dir = EmptyDir
  /\ output_file = None
  /\ playlist_file = None
  /\ checksum_file = None
  /\ pc = "scan"
  /\ files = <<>>
  /\ current_checksum = <<>>
  /\ previous_checksum = <<>>
  /\ returncode = 0
  /\ stdout = <<>>
  /\ calls = {}
  /\ envc = 0
  /\ disturbed = FALSE
  /\ touched = FALSE
  /\ clean_iters = 0
  /\ peer = PeerOff

\* ------------------------------------------------------------ the main loop
\* The rebuild decision without its test for the artifact.
NeedsRebuild_ChecksumOnly(current, previous, out) == current # previous

\* The rebuild decision with the cache switched off: it always rebuilds.
NeedsRebuild_Always(current, previous, out) == TRUE

\* The rebuild decision with the comparison inverted.
NeedsRebuild_Inverted(current, previous, out) == current = previous \/ ~exists(out)

\* The rebuild decision with "and" for "or".
NeedsRebuild_Both(current, previous, out) == current # previous /\ ~exists(out)

\* current_checksum != previous_checksum or not os.path.exists(output_file)
NeedsRebuild(current, previous, out) == current # previous \/ ~exists(out)

\* subprocess.run without check=True: the exit status is ignored.
AfterRun_Unchecked(rc, next) == next

\* subprocess.run(cmd, check=True): a non-zero exit raises
\* CalledProcessError, which nothing catches.
AfterRun(rc, next) == IF rc = 0 THEN next ELSE "crashed"

\* The end of an iteration, for the bookkeeping of undisturbed iterations.
IterationEnds == clean_iters' = IF disturbed THEN 0 ELSE 1

\* files = get_files_sorted_by_mtime(music_dir)
Scan ==
  /\ pc = "scan"
  /\ \E listing \in Listings(dir) :
       files' = get_files_sorted_by_mtime(listing, dir)
  /\ pc' = "branch"
  /\ stdout' = <<>>
  /\ calls' = {"get_files_sorted_by_mtime"}
  /\ disturbed' = FALSE
  /\ clean_iters' = IF files' = files THEN clean_iters ELSE 0
  /\ UNCHANGED <<peer, dir, scratch, current_checksum, previous_checksum,
                 returncode, envc, touched>>

\* The empty branch with the player call outside the else: it goes on to play.
NoFiles_ThenPlay ==
  /\ pc = "branch"
  /\ files = <<>>
  /\ stdout' = Append(stdout, NoFilesMsg)
  /\ pc' = "play"
  /\ UNCHANGED <<peer, dir, scratch, locals, returncode, calls, history>>

\* if not files: print("No .wav files found in the directory.")
NoFiles ==
  /\ pc = "branch"
  /\ files = <<>>
  /\ stdout' = Append(stdout, NoFilesMsg)
  /\ pc' = "scan"
  /\ IterationEnds
  /\ UNCHANGED <<peer, dir, scratch, locals, returncode, calls, envc, disturbed,
                 touched>>

\* The checksum taken without the test for an empty scan.
Checksum_Unguarded ==
  /\ pc = "branch"
  /\ Readable(files, dir)
  /\ current_checksum' = calculate_checksum(files, dir)
  /\ pc' = "check"
  /\ calls' = calls \cup {"calculate_checksum"}
  /\ UNCHANGED <<peer, dir, scratch, files, previous_checksum, returncode, stdout,
                 history>>

\* else: current_checksum = calculate_checksum(files)
Checksum ==
  /\ pc = "branch"
  /\ files # <<>>
  /\ Readable(files, dir)
  /\ current_checksum' = calculate_checksum(files, dir)
  /\ pc' = "check"
  /\ calls' = calls \cup {"calculate_checksum"}
  /\ UNCHANGED <<peer, dir, scratch, files, previous_checksum, returncode, stdout,
                 history>>

\* calculate_checksum opens a file that was removed after the scan:
\* FileNotFoundError, uncaught.
ChecksumFails ==
  /\ pc = "branch"
  /\ files # <<>>
  /\ ~Readable(files, dir)
  /\ pc' = "crashed"
  /\ calls' = calls \cup {"calculate_checksum"}
  /\ UNCHANGED <<peer, dir, scratch, locals, returncode, stdout, history>>

\* previous_checksum = read_previous_checksum(checksum_file), then the if.
Check ==
  /\ pc = "check"
  /\ previous_checksum' = read_previous_checksum(checksum_file)
  /\ calls' = calls \cup {"read_previous_checksum"}
  /\ IF NeedsRebuild(current_checksum, previous_checksum', output_file)
     THEN /\ stdout' = Append(stdout, ChangesMsg)
          /\ pc' = "generate"
          /\ touched' = disturbed
     ELSE /\ stdout' = Append(stdout, NoChangesMsg)
          /\ pc' = "play"
          /\ touched' = touched
  /\ UNCHANGED <<peer, dir, scratch, files, current_checksum, returncode, envc,
                 disturbed, clean_iters>>

\* generate_playlist(files, playlist_file)
Generate ==
  /\ pc = "generate"
  /\ playlist_file' = generate_playlist(files)
  /\ pc' = "concatenate"
  /\ calls' = calls \cup {"generate_playlist"}
  /\ UNCHANGED <<peer, dir, output_file, checksum_file, locals, returncode, stdout,
                 history>>

\* concatenate_files(playlist_file, output_file): ffmpeg exits with rc. It
\* exits 0 only when it could read every listed file, and then the artifact
\* is their data joined; a failing run leaves the artifact as it was or
\* overwritten (-y) with part of what it could read.
Concatenate(rc) ==
  /\ pc = "concatenate"
  /\ LET inputs == ManifestPaths(playlist_file)
     IN  IF rc = 0
         THEN /\ Readable(inputs, Filesystem)
              /\ output_file' = Some(ConcatData(inputs, Filesystem))
         ELSE output_file' \in {output_file} \cup
                { Some(d) :
                    d \in Prefixes(ConcatData(ReadablePrefix(inputs, Filesystem),
                                               Filesystem)) }
  /\ returncode' = rc
  /\ pc' = AfterRun(rc, "write")
  /\ calls' = calls \cup {"concatenate_files"}
  /\ UNCHANGED <<peer, dir, playlist_file, checksum_file, locals, stdout, history>>

\* write_new_checksum(current_checksum, checksum_file)
WriteChecksum ==
  /\ pc = "write"
  /\ checksum_file' = write_new_checksum(current_checksum)
  /\ pc' = "play"
  /\ calls' = calls \cup {"write_new_checksum"}
  /\ UNCHANGED <<peer, dir, output_file, playlist_file, locals, returncode, stdout,
                 history>>

\* print("Playing combined playlist..."); play_audio(output_file): mpv exits
\* with rc, non-zero at least when the artifact does not exist.
Play(rc) ==
  /\ pc = "play"
  /\ rc = 0 => exists(output_file)
  /\ stdout' = Append(stdout, PlayingMsg)
  /\ returncode' = rc
  /\ pc' = AfterRun(rc, "scan")
  /\ calls' = calls \cup {"play_audio"}
  /\ IF rc = 0 THEN IterationEnds ELSE clean_iters' = clean_iters
  /\ UNCHANGED <<peer, dir, scratch, locals, envc, disturbed, touched>>

\* ---------------------------------------------------------- the environment
\* Something outside the program changes the audio files, or removes the
\* artifact, while the loop runs.
Added(q, d, t) ==
  /\ ~exists(dir[q])
  /\ dir' = [dir EXCEPT ![q] = File(d, t)]

Modified(q, d, t) ==
  /\ exists(dir[q])
  /\ dir[q] # File(d, t)
  /\ dir' = [dir EXCEPT ![q] = File(d, t)]

Removed(q) ==
  /\ exists(dir[q])
  /\ dir' = [dir EXCEPT ![q] = None]

EnvActs ==
  /\ pc # "crashed"
  /\ envc < MaxEnv
  /\ envc' = envc + 1
  /\ disturbed' = TRUE
  /\ touched' = TRUE
  /\ clean_iters' = 0
  /\ UNCHANGED peer

AddFile(q, d, t) == EnvActs /\ Added(q, d, t) /\ UNCHANGED program

ModifyFile(q, d, t) == EnvActs /\ Modified(q, d, t) /\ UNCHANGED program

RemoveFile(q) == EnvActs /\ Removed(q) /\ UNCHANGED program

RemoveArtifact ==
  /\ EnvActs
  /\ exists(output_file)
  /\ output_file' = None
  /\ UNCHANGED <<peer, dir, playlist_file, checksum_file, pc, locals, returncode,
                 stdout, calls>>

Environment ==
  \/ \E q \in AudioPaths, d \in Written, t \in Mtimes : AddFile(q, d, t)
  \/ \E q \in AudioPaths, d \in Written, t \in Mtimes : ModifyFile(q, d, t)
  \/ \E q \in AudioPaths : RemoveFile(q)
  \/ RemoveArtifact

ExitCodes == {0, 1}

Next ==
  \/ Scan
  \/ NoFiles
  \/ Checksum
  \/ ChecksumFails
  \/ Check
  \/ Generate
  \/ \E rc \in ExitCodes : Concatenate(rc)
  \/ WriteChecksum
  \/ \E rc \in ExitCodes : Play(rc)
  \/ Environment

Spec == Init /\ [][Next]_vars

\* ------------------------------------------- the loop with well-behaved tools
\* The tools exit 0 whenever they can: ffmpeg fails only on a listed file
\* that is gone, mpv only on a missing artifact. The loop is one sequential
\* process that is never suspended, so its next statement is always taken.
LoopStep ==
  \/ Scan
  \/ NoFiles
  \/ Checksum
  \/ ChecksumFails
  \/ Check
  \/ Generate
  \/ Concatenate(0)
  \/ Concatenate(1) /\ ~Readable(ManifestPaths(playlist_file), Filesystem)
  \/ WriteChecksum
  \/ Play(0)
  \/ Play(1) /\ ~exists(output_file)

FairNext == LoopStep \/ Environment

FairSpec == Init /\ [][FairNext]_vars /\ WF_vars(LoopStep)

\* ------------------------------------------------- the checksum, on its own
\* calculate_checksum applied to a directory's scan, before and after one
\* change to the matched files.
ChecksumInit ==
  /\ dir \in { f \in [Paths -> {None} \cup { File(d, t) : d \in Contents, t \in Mtimes }] :
                 \A q \in Paths \ AudioPaths : f[q] = EmptyDir[q] }
  /\ \E listing \in Listings(dir) :
       files = get_files_sorted_by_mtime(listing, dir)
  /\ current_checksum = calculate_checksum(files, dir)
  /\ previous_checksum = <<>>
  /\ pc = "hashed"
  /\ output_file = None
  /\ playlist_file = None
  /\ checksum_file = None
  /\ returncode = 0
  /\ stdout = <<>>
  /\ calls = {}
  /\ envc = 0
  /\ disturbed = FALSE
  /\ touched = FALSE
  /\ clean_iters = 0
  /\ peer = PeerOff

\* The scan and the checksum taken again, after the change.
Rehash(change) ==
  /\ pc = "hashed"
  /\ \E listing \in Listings(dir') :
       files' = get_files_sorted_by_mtime(listing, dir')
  /\ previous_checksum' = current_checksum
  /\ current_checksum' = calculate_checksum(files', dir')
  /\ pc' = "rehashed"
  /\ calls' = {change}
  /\ UNCHANGED <<peer, scratch, returncode, stdout, history>>

HashAfterAdd == 
  \E q \in AudioPaths, d \in Contents, t \in Mtimes :
    Added(q, d, t) /\ Rehash("add a file")

HashAfterByteChange ==
  \E q \in AudioPaths, t \in Mtimes, b \in Bytes :
    /\ exists(dir[q])
    /\ \E i \in 1..Len(dir[q][1].data) :
         /\ dir[q][1].data[i] # b
         /\ Modified(q, [dir[q][1].data EXCEPT ![i] = b], t)
    /\ Rehash("change a byte")

HashAfterRemove ==
  \E q \in AudioPaths : Removed(q) /\ Rehash("remove a file")

ChecksumNext == HashAfterAdd \/ HashAfterByteChange \/ HashAfterRemove

ChecksumSpec == ChecksumInit /\ [][ChecksumNext]_vars

\* ------------------------------------- the checksum file's round trip, alone
HexChars == { HexDigits[i] : i \in 1..Len(HexDigits) }
DigestStrings == SeqsUpTo(HexChars, MaxDigestLen) \ {<<>>}

RoundTripInit ==
  /\ current_checksum \in DigestStrings
  /\ checksum_file = None
  /\ previous_checksum = <<"?">>
  /\ pc = "read first"
  /\ dir = EmptyDir
  /\ output_file = None
  /\ playlist_file = None
  /\ files = <<>>
  /\ returncode = 0
  /\ stdout = <<>>
  /\ calls = {}
  /\ envc = 0
  /\ disturbed = FALSE
  /\ touched = FALSE
  /\ clean_iters = 0
  /\ peer = PeerOff

ReadChecksum(at, next) ==
  /\ pc = at
  /\ previous_checksum' = read_previous_checksum(checksum_file)
  /\ pc' = next
  /\ calls' = calls \cup {"read_previous_checksum"}
  /\ UNCHANGED <<peer, dir, scratch, files, current_checksum, returncode, stdout,
                 history>>

ReadBeforeWrite == ReadChecksum("read first", "write")

ReadAfterWrite == ReadChecksum("read back", "done")

WriteThenRead ==
  /\ pc = "write"
  /\ checksum_file' = write_new_checksum(current_checksum)
  /\ pc' = "read back"
  /\ calls' = calls \cup {"write_new_checksum"}
  /\ UNCHANGED <<peer, dir, output_file, playlist_file, locals, returncode, stdout,
                 history>>

RoundTripNext == ReadBeforeWrite \/ WriteThenRead \/ ReadAfterWrite

RoundTripSpec == RoundTripInit /\ [][RoundTripNext]_vars

\* ------------------------------------------- two instances, one set of paths
\* A second instance runs the same loop on PeerDir, with tools that succeed.
\* Its statements interleave with the first instance's; both use the one
\* manifest, artifact and checksum file.
PeerAt(at) == peer.pc = at
PeerFrame == UNCHANGED <<dir, pc, locals, returncode, stdout, calls, history>>

PeerScan ==
  /\ PeerAt("scan")
  /\ \E listing \in ListingsOf(PeerEntries, PeerDir) :
       peer' = [peer EXCEPT !.pc = "checksum",
                            !.files = get_files_sorted_by_mtime(listing, PeerDir)]
  /\ UNCHANGED scratch
  /\ PeerFrame

PeerChecksum ==
  /\ PeerAt("checksum")
  /\ peer' = [peer EXCEPT !.pc = "check",
                          !.current_checksum = calculate_checksum(peer.files, PeerDir)]
  /\ UNCHANGED scratch
  /\ PeerFrame

PeerCheck ==
  /\ PeerAt("check")
  /\ LET previous == read_previous_checksum(checksum_file)
     IN  peer' = [peer EXCEPT
                    !.previous_checksum = previous,
                    !.pc = IF NeedsRebuild(peer.current_checksum, previous, output_file)
                           THEN "generate" ELSE "play"]
  /\ UNCHANGED scratch
  /\ PeerFrame

PeerGenerate ==
  /\ PeerAt("generate")
  /\ playlist_file' = generate_playlist(peer.files)
  /\ peer' = [peer EXCEPT !.pc = "concatenate"]
  /\ UNCHANGED <<output_file, checksum_file>>
  /\ PeerFrame

PeerConcatenate ==
  /\ PeerAt("concatenate")
  /\ LET inputs == ManifestPaths(playlist_file)
     IN  /\ Readable(inputs, Filesystem)
         /\ output_file' = Some(ConcatData(inputs, Filesystem))
  /\ peer' = [peer EXCEPT !.pc = "write"]
  /\ UNCHANGED <<playlist_file, checksum_file>>
  /\ PeerFrame

PeerWriteChecksum ==
  /\ PeerAt("write")
  /\ checksum_file' = write_new_checksum(peer.current_checksum)
  /\ peer' = [peer EXCEPT !.pc = "play"]
  /\ UNCHANGED <<output_file, playlist_file>>
  /\ PeerFrame

PeerPlay ==
  /\ PeerAt("play")
  /\ exists(output_file)
  /\ peer' = [peer EXCEPT !.pc = "scan"]
  /\ UNCHANGED scratch
  /\ PeerFrame

\* Both instances start together, the first on any directory the environment
\* could have left, with no scratch file in /tmp.
TwoInit ==
  /\ dir \in { f \in [Paths -> {None} \cup { File(d, t) : d \in Written, t \in Mtimes }] :
                 \A q \in Paths \ AudioPaths : f[q] = EmptyDir[q] }
  /\ peer = [PeerOff EXCEPT !.pc = "scan"]
  /\ output_file = None
  /\ playlist_file = None
  /\ checksum_file = None
  /\ pc = "scan"
  /\ files = <<>>
  /\ current_checksum = <<>>
  /\ previous_checksum = <<>>
  /\ returncode = 0
  /\ stdout = <<>>
  /\ calls = {}
  /\ envc = 0
  /\ disturbed = FALSE
  /\ touched = FALSE
  /\ clean_iters = 0

TwoNext ==
  \/ Scan
  \/ NoFiles
  \/ Checksum
  \/ Check
  \/ Generate
  \/ \E rc \in ExitCodes : Concatenate(rc)
  \/ WriteChecksum
  \/ \E rc \in ExitCodes : Play(rc)
  \/ PeerScan
  \/ PeerChecksum
  \/ PeerCheck
  \/ PeerGenerate
  \/ PeerConcatenate
  \/ PeerWriteChecksum
  \/ PeerPlay

TwoSpec == TwoInit /\ [][TwoNext]_vars

\* ---------------------------------------------------- the scanner, on its own
\* get_files_sorted_by_mtime applied to a directory with a third audio file,
\* in the subdirectory, under every order in which os.walk may list it.
CWav == <<"c", ".", "w", "a", "v">>
ScanEntries == Entries \cup { [root |-> 2, name |-> CWav] }
ScanPaths == { PathOf(e) : e \in ScanEntries }
ScanMtimes == 1..MaxScanMtime

ScanInit ==
  /\ dir \in [ScanPaths -> {None} \cup { File(<<0>>, t) : t \in ScanMtimes }]
  /\ pc = "list"
  /\ files = <<>>
  /\ current_checksum = <<>>
  /\ previous_checksum = <<>>
  /\ output_file = None
  /\ playlist_file = None
  /\ checksum_file = None
  /\ returncode = 0
  /\ stdout = <<>>
  /\ calls = {}
  /\ envc = 0
  /\ disturbed = FALSE
  /\ touched = FALSE
  /\ clean_iters = 0
  /\ peer = PeerOff

ScanListing ==
  /\ pc = "list"
  /\ \E listing \in ListingsOf(ScanEntries, dir) :
       files' = get_files_sorted_by_mtime(listing, dir)
  /\ pc' = "scanned"
  /\ calls' = {"get_files_sorted_by_mtime"}
  /\ UNCHANGED <<peer, dir, scratch, current_checksum, previous_checksum,
                 returncode, stdout, history>>

ScanSpec == ScanInit /\ [][ScanListing]_vars

\* ================================================================== claims
\* The program's own step: the loop moves to another statement.
LoopMoves == pc' # pc

\* The scans the directory admits now (files of equal mtime in either order).
Scans(fs) == { get_files_sorted_by_mtime(listing, fs) : listing \in Listings(fs) }

\* The artifact exists and is the current matched files joined in scan order.
ArtifactValid ==
  \E s \in Scans(dir) : output_file = Some(ConcatData(s, dir))

\* The checksum file holds the digest of the current matched files.
ChecksumMatches ==
  \E s \in Scans(dir) : checksum_file = Some(calculate_checksum(s, dir))

Rebuilding == {"generate_playlist", "concatenate_files"}

\* C1: in an iteration whose scan found files, the loop goes on to the
\* rebuild (manifest, transcoder, checksum) exactly when the digest it
\* computed differs from what the checksum file holds or the artifact does
\* not exist; otherwise it goes straight to the player.
C1_RebuildIffStaleOrMissing ==
  [][ (pc = "check" /\ LoopMoves) =>
        /\ pc' \in {"generate", "play"}
        /\ pc' = "generate" <=>
             (checksum_file # Some(current_checksum) \/ output_file = None)
    ]_vars

\* C1 witness: the checksum file holds the iteration's digest, the artifact
\* has been deleted, and the loop has gone on to the rebuild.
C1_Witness ==
  /\ pc = "generate"
  /\ checksum_file = Some(current_checksum)
  /\ output_file = None

\* C2: when an iteration completed with nothing changed by the environment
\* since its scan, and the next scan returns the same files in the same order
\* with still nothing changed, that next iteration calls neither the playlist
\* builder nor the transcoder.
C2_SecondIterationSkips ==
  (clean_iters = 1 /\ ~disturbed /\ pc # "scan") => calls \cap Rebuilding = {}

\* C2 witness: after an undisturbed iteration that rebuilt, the next one has
\* compared the checksums and is about to play without rebuilding.
C2_Witness ==
  /\ clean_iters = 1
  /\ ~disturbed
  /\ pc = "play"
  /\ files # <<>>
  /\ stdout = <<NoChangesMsg>>
  /\ ArtifactValid

\* C3: a checksum file holding another digest than the iteration's, with the
\* artifact in place, sends the loop to the rebuild; and when the rebuild has
\* written the checksum, the file holds the iteration's digest.
C3_StaleDigestRebuilds ==
  /\ [][ ( /\ pc = "check"
           /\ LoopMoves
           /\ exists(checksum_file)
           /\ checksum_file # Some(current_checksum)
           /\ exists(output_file) ) => pc' = "generate" ]_vars
  /\ []( (pc = "play" /\ "write_new_checksum" \in calls) =>
           checksum_file = Some(current_checksum) )

\* C3 witness: a rebuild that started from a stale digest and an existing
\* artifact has written the new digest.
C3_Witness ==
  /\ pc = "play"
  /\ "write_new_checksum" \in calls
  /\ previous_checksum # <<>>
  /\ previous_checksum # current_checksum
  /\ checksum_file = Some(current_checksum)

\* C4: in an iteration whose scan is empty the loop prints that no files were
\* found, calls nothing but the scanner, leaves the scratch files alone and
\* does not crash.
C4_EmptyScanDoesNothing ==
  (files = <<>> /\ calls # {}) =>
    /\ calls = {"get_files_sorted_by_mtime"}
    /\ pc \in {"branch", "scan"}
    /\ pc = "scan" => stdout = <<NoFilesMsg>>
    /\ returncode = 0

\* C4 witness: an iteration with an empty scan has ended.
C4_Witness ==
  /\ files = <<>>
  /\ pc = "scan"
  /\ stdout = <<NoFilesMsg>>
  /\ calls = {"get_files_sorted_by_mtime"}

\* C5 as claimed: in every reachable state the artifact is valid exactly when
\* the checksum file holds the digest of the current files.
C5_ValidIffChecksumMatches == ArtifactValid <=> ChecksumMatches

\* C5 amended: when the player is about to be called and the environment has
\* changed nothing since the scan of the iteration that last rebuilt, the
\* artifact is valid and the checksum file holds the digest of the current
\* files.
C5_PlayedArtifactValid ==
  (pc = "play" /\ ~touched) => (ArtifactValid /\ ChecksumMatches)

\* C5 witness: an untouched artifact built from two files is about to be
\* played from the cache.
C5_Witness ==
  /\ pc = "play"
  /\ ~touched
  /\ Len(files) = 2
  /\ stdout = <<NoChangesMsg>>
  /\ ArtifactValid
  /\ ChecksumMatches

\* C6 as claimed: once the environment has stopped changing files, and with
\* tools that exit 0 whenever they can, from some point on every artifact the
\* loop is about to play is the current files joined in scan order.
C6_EventuallyPlaysCurrent == <>[](pc = "play" => ArtifactValid)

\* C7 as claimed: after an empty scan the same iteration goes on to the
\* player.
C7_EmptyScanPlays ==
  [][ (pc = "branch" /\ files = <<>> /\ LoopMoves) => pc' = "play" ]_vars

\* C7 amended: after an empty scan the loop prints that no files were found
\* and starts the next scan; the iteration calls neither the player nor
\* anything else, and leaves the scratch files alone.
C7_EmptyScanSkipsPlay ==
  [][ (pc = "branch" /\ files = <<>> /\ LoopMoves) =>
        /\ pc' = "scan"
        /\ stdout' = <<NoFilesMsg>>
        /\ "play_audio" \notin calls'
        /\ UNCHANGED scratch ]_vars

\* C7 witness: an iteration with an empty scan has ended without the player,
\* with an old artifact still in place.
C7_Witness ==
  /\ files = <<>>
  /\ pc = "scan"
  /\ stdout = <<NoFilesMsg>>
  /\ "play_audio" \notin calls
  /\ exists(output_file)

\* C8: a non-zero exit of ffmpeg or mpv ends the loop: the program is crashed
\* as soon as the exit status is non-zero, and a crashed program takes no
\* further step.
C8_ToolFailureIsFatal ==
  /\ [](returncode # 0 => pc = "crashed")
  /\ [][pc = "crashed" => UNCHANGED vars]_vars

\* C8 witness: the transcoder has failed and the loop is dead before the
\* checksum was written or the player called.
C8_Witness ==
  /\ returncode # 0
  /\ pc = "crashed"
  /\ "concatenate_files" \in calls
  /\ "write_new_checksum" \notin calls
  /\ "play_audio" \notin calls

\* C9 as claimed: changing a byte of a file, adding a file or removing a file
\* gives a digest different from the one before the change.
C9_EveryChangeChangesDigest ==
  pc = "rehashed" => current_checksum # previous_checksum

\* C10: a digest written by write_new_checksum is read back unchanged by
\* read_previous_checksum, and reading a checksum path that was never written
\* gives the empty string.
C10_RoundTrip ==
  /\ pc = "write" => previous_checksum = <<>>
  /\ pc = "done" => previous_checksum = current_checksum

\* C10 witness: a two-character digest has been written and read back, after
\* the read of the missing file.
C10_Witness ==
  /\ pc = "done"
  /\ Len(current_checksum) = 2
  /\ checksum_file = Some(current_checksum)
  /\ previous_checksum = current_checksum

\* The audio files the studied directory holds now.
Matching == { q \in ScanPaths : endswith(q, Extension) /\ exists(dir[q]) }

\* C11: when the matching files have pairwise distinct modification times,
\* the scan returns exactly those files, each once, in ascending order of
\* modification time, whatever the order in which the walk listed them.
C11_ScanAscendingMtime ==
  ( /\ pc = "scanned"
    /\ \A q, r \in Matching : q # r => getmtime(q, dir) # getmtime(r, dir) ) =>
      /\ { files[i] : i \in 1..Len(files) } = Matching
      /\ Len(files) = Cardinality(Matching)
      /\ \A i, j \in 1..Len(files) :
           i < j => getmtime(files[i], dir) < getmtime(files[j], dir)

\* C11 witness: three files of distinct mtimes are returned in ascending
\* order with c.wav first, which the walk always lists last (it is in the
\* subdirectory).
C11_Witness ==
  /\ pc = "scanned"
  /\ Len(files) = 3
  /\ files[1] = join(SubDir, CWav)
  /\ getmtime(files[1], dir) < getmtime(files[2], dir)
  /\ getmtime(files[2], dir) < getmtime(files[3], dir)

\* The artifact holds what the second instance's files join to, which is not
\* what this instance's files join to, while the checksum file holds this
\* instance's digest.
ForeignArtifactCached ==
  /\ files # <<>>
  /\ peer.files # <<>>
  /\ Readable(files, dir)
  /\ checksum_file = Some(calculate_checksum(files, dir))
  /\ output_file = Some(ConcatData(peer.files, PeerDir))
  /\ output_file # Some(ConcatData(files, dir))

\* C12: with two instances on the same scratch paths, an instance that finds
\* its own digest in the checksum file beside an artifact built from the other
\* instance's manifest does not rebuild: it goes straight to the player.
C12_ForeignArtifactIsReused ==
  [][ (pc = "check" /\ LoopMoves /\ ForeignArtifactCached) => pc' = "play" ]_vars

\* C12 witness: an interleaving of the two rebuilds has left this instance's
\* digest beside the other instance's artifact, and this instance has since
\* skipped the rebuild and played that artifact.
C12_Witness ==
  /\ ForeignArtifactCached
  /\ pc = "scan"
  /\ "play_audio" \in calls
  /\ calls \cap Rebuilding = {}
  /\ stdout = <<NoChangesMsg, PlayingMsg>>
  /\ returncode = 0

\* What a rebuild writes: the manifest, the artifact, the checksum file.
Rewriting == Rebuilding \cup {"write_new_checksum"}

\* C13: the artifact is created or overwritten by the transcoder step alone,
\* and that step runs only in an iteration that found the digest changed or
\* the artifact missing; the steps of an iteration that skips the rebuild
\* leave the artifact, the manifest and the checksum file as they are, and
\* its last step hands the artifact to the player with nothing rebuilt.
C13_ArtifactFrame ==
  [][ /\ (output_file' # output_file /\ exists(output_file'))
           => (pc = "concatenate" /\ LoopMoves)
      /\ (pc = "concatenate" /\ LoopMoves)
           => /\ current_checksum # previous_checksum \/ ~exists(output_file)
              /\ stdout = <<ChangesMsg>>
      /\ (LoopMoves /\ stdout' # <<>> /\ stdout'[1] = NoChangesMsg)
           => UNCHANGED scratch
      /\ (pc = "play" /\ LoopMoves /\ stdout = <<NoChangesMsg>>)
           => /\ "play_audio" \in calls'
              /\ calls' \cap Rewriting = {} ]_vars

\* C13 witness: an iteration that skipped the rebuild has played the artifact
\* an earlier iteration built, after the environment had changed files.
C13_Witness ==
  /\ pc = "scan"
  /\ envc > 0
  /\ stdout = <<NoChangesMsg, PlayingMsg>>
  /\ returncode = 0
  /\ calls \cap Rewriting = {}
  /\ previous_checksum = current_checksum
  /\ exists(output_file) /\ exists(playlist_file) /\ exists(checksum_file)

\* The statements of an iteration that scans, checks, rebuilds or skips, and
\* plays, in the order the claim gives them.
StrictEdges ==
  { <<"scan", "branch">>, <<"branch", "check">>,
    <<"check", "generate">>, <<"check", "play">>,
    <<"generate", "concatenate">>, <<"concatenate", "write">>,
    <<"write", "play">>, <<"play", "scan">> }

\* A tool exited non-zero and the program ended.
ToolFailure == pc \in {"concatenate", "play"} /\ pc' = "crashed" /\ returncode' # 0

\* C14 as claimed: every iteration goes scan, check, rebuild or skip, play and
\* back to the scan, and nothing but a failing tool ends the loop.
C14_StrictCycle ==
  [][ LoopMoves => (<<pc, pc'>> \in StrictEdges \/ ToolFailure) ]_vars

\* The iteration of an empty scan goes straight back to the scan; the checksum
\* of a scanned file that has since been removed raises and ends the program.
EmptyScan == pc = "branch" /\ files = <<>> /\ pc' = "scan"
ScannedFileGone ==
  /\ pc = "branch" /\ pc' = "crashed"
  /\ files # <<>> /\ ~Readable(files, dir)

\* The player is about to run after a successful transcoder run, or after the
\* skip, of this iteration.
PlayerDue ==
  \/ /\ stdout = <<NoChangesMsg>>
     /\ calls \cap Rewriting = {}
  \/ /\ stdout = <<ChangesMsg>>
     /\ Rewriting \subseteq calls
     /\ returncode = 0

\* C14: an iteration takes its statements in the order scan, check, rebuild
\* or skip, play, except that an empty scan leads straight to the next scan
\* and that a failing tool or a scanned file gone before it is hashed ends
\* the program; the player runs only after the transcoder of the same
\* iteration exited 0 or the skip was taken; an iteration runs the transcoder
\* and the player at most once each; a scan starts only after the player
\* exited 0 or after an empty scan; and the loop reaches the scan again and
\* again unless the program has ended that way.
C14_ControlFlow ==
  /\ [][ /\ LoopMoves => \/ <<pc, pc'>> \in StrictEdges
                         \/ ToolFailure
                         \/ EmptyScan
                         \/ ScannedFileGone
         /\ (pc = "play" /\ LoopMoves) => PlayerDue /\ "play_audio" \notin calls
         /\ (pc = "concatenate" /\ LoopMoves) => "concatenate_files" \notin calls
         /\ (pc' = "scan" /\ LoopMoves)
              => \/ pc = "play" /\ returncode' = 0 /\ "play_audio" \in calls'
                 \/ EmptyScan ]_vars
  /\ []<>(pc = "scan") \/ <>[](pc = "crashed")

\* C14 witness: an iteration has scanned, checked, rebuilt and played, each
\* once, and the loop is back at the scan.
C14_Witness ==
  /\ pc = "scan"
  /\ stdout = <<ChangesMsg, PlayingMsg>>
  /\ returncode = 0
  /\ calls = {"get_files_sorted_by_mtime", "calculate_checksum",
              "read_previous_checksum", "play_audio"} \cup Rewriting

\* C15: from the manifest step of a rebuild to the end of its iteration the
\* manifest holds one line per file of the iteration's scan and no other
\* line, line i naming file i of the scan, no file twice; no file of the scan
\* is listed before one with a smaller modification time, as long as the
\* environment has left the files alone since the scan.
C15_ManifestIsTheScan ==
  "generate_playlist" \in calls =>
    /\ exists(playlist_file)
    /\ Len(playlist_file[1]) = Len(files)
    /\ \A i \in 1..Len(files) :
         playlist_file[1][i] = LinePrefix \o files[i] \o LineSuffix
    /\ \A i, j \in 1..Len(files) : i # j => files[i] # files[j]
    /\ ~disturbed =>
         \A i, j \in 1..Len(files) :
           i < j => getmtime(files[i], dir) <= getmtime(files[j], dir)

\* C15 witness: a rebuild has just written a manifest of one line where the
\* rebuild before it, whose digest of two files is still in the checksum
\* file, had left two.
C15_Witness ==
  /\ pc = "concatenate"
  /\ Len(files) = 1
  /\ Len(playlist_file[1]) = 1
  /\ Len(previous_checksum) = 5
  /\ checksum_file = Some(previous_checksum)
  /\ exists(output_file)

\* The transcoder of this iteration has run and exited 0.
TranscoderSucceeded == "concatenate_files" \in calls /\ returncode = 0

\* C16: the checksum file changes, and write_new_checksum runs, only after
\* the transcoder of the same iteration has exited 0, and what is written is
\* the digest that iteration computed; a transcoder that exits non-zero ends
\* the program with the checksum file as it was before.
C16_ChecksumAfterTranscoder ==
  [][ /\ (checksum_file' # checksum_file \/ (pc = "write" /\ LoopMoves))
           => /\ pc = "write"
              /\ TranscoderSucceeded
              /\ checksum_file' = Some(current_checksum)
      /\ (pc = "concatenate" /\ LoopMoves /\ returncode' # 0)
           => /\ checksum_file' = checksum_file
              /\ pc' = "crashed"
              /\ "write_new_checksum" \notin calls' ]_vars

\* C16 witness: the transcoder has failed in a rebuild that had already
\* replaced the manifest, it leaves an artifact that is not this iteration's
\* files joined, and the checksum file still holds the digest of an earlier
\* rebuild, not this iteration's.
C16_Witness ==
  /\ pc = "crashed"
  /\ returncode # 0
  /\ "concatenate_files" \in calls
  /\ playlist_file = generate_playlist(files)
  /\ exists(checksum_file)
  /\ checksum_file = Some(previous_checksum)
  /\ checksum_file # Some(current_checksum)
  /\ exists(output_file)
  /\ Readable(files, dir)
  /\ output_file # Some(ConcatData(files, dir))

=============================================================================
